---------------------------- MODULE Spec2Model ----------------------------
(***************************************************************************)
(* Model of the text buffer of src/src/backend.rs: TextBuffer (line        *)
(* storage, persistence state, cursor collection) and Cursor.              *)
(*                                                                         *)
(* A Rust String is a sequence of characters; every character has an       *)
(* encoded length (len_utf8), and every index the code uses on a String is *)
(* a BYTE index unless it goes through chars().  A character is a TLA+     *)
(* string naming it: "a" (U+0061, 1 byte), "E" (U+00E9, 2 bytes), "\t",    *)
(* "\n", "\r", "BS" (U+0008), "DEL" (U+007F), "ESC" (U+001B), and the      *)
(* ASCII characters escape_unicode produces.                               *)
(*                                                                         *)
(* A panic (failed assert!, unimplemented!(), index out of bounds, slicing *)
(* off a character boundary, unwrap of None, arithmetic overflow in a      *)
(* build with overflow checks) aborts the call; the fields keep what was   *)
(* assigned before the panic and panicked becomes TRUE.  In a build        *)
(* without overflow checks `usize - 1` wraps; both builds are modelled     *)
(* (parameter wrap).                                                       *)
(***************************************************************************)
EXTENDS Integers, Sequences, FiniteSets, TLC

VARIABLES
    path,       \* TextBuffer.path: NoPath or a path name
    size,       \* TextBuffer.size
    lines,      \* TextBuffer.lines: sequence of Strings (index i is lines[i+1])
    saved,      \* TextBuffer.saved
    loaded,     \* TextBuffer.loaded
    cursors,    \* TextBuffer.cursors: sequence of Cursor records
    fs,         \* the files at the path names: File(content) or NoFile
    panicked,   \* a call panicked: the process is gone
    last,       \* the last call: its name, argument, outcome and I/O probe
    persisted,  \* history: lines as they were at the last completed load or save
    edits,      \* number of write_character calls so far
    build       \* whether the build wraps on overflow, once an overflow showed it

vars == <<path, size, lines, saved, loaded, cursors, fs, panicked, last, persisted,
          edits, build>>

-----------------------------------------------------------------------------
(* Bounds of the model *)

\* write_character calls explored in one run
MaxEdits == 2
\* write_character calls explored in one run that interleaves every operation
MaxInterleavedEdits == 1
\* cursors handed to set_cursors in one call
MaxCursors == 2

-----------------------------------------------------------------------------
(* Characters *)

NoPath == "None"
\* a path name at which there is no file
NoFile == [exists |-> FALSE, bytes |-> <<>>]
\* the file with content s
File(s) == [exists |-> TRUE, bytes |-> s]

\* backend.rs:8-10
BACKSPACE == "BS"
DEL == "DEL"
ALLOWED_CONTROL == {"\t", "\n", BACKSPACE, DEL}

\* char::is_control for the characters of the model (general category Cc)
is_control(c) == c \in {"\t", "\n", "\r", BACKSPACE, DEL, "ESC"}

\* char::len_utf8
len_utf8(c) == IF c = "E" THEN 2 ELSE 1

\* usize::MAX, the value `0usize - 1` wraps to (TLC integers are 32 bits wide;
\* the model only compares and stores it)
UsizeMax == 2147483647

-----------------------------------------------------------------------------
(* Strings: byte-indexed views of a sequence of characters *)

RECURSIVE str_len(_)
\* String::len: the length in bytes
str_len(s) == IF s = <<>> THEN 0 ELSE len_utf8(Head(s)) + str_len(Tail(s))

\* byte index at which the character with 0-based index n starts
\* (n = Len(s): the end of the string)
byte_of(s, n) == str_len(SubSeq(s, 1, n))

\* str::is_char_boundary
is_char_boundary(s, i) == \E n \in 0..Len(s) : byte_of(s, n) = i

\* number of characters that start before the boundary i
chars_before(s, i) == CHOOSE n \in 0..Len(s) : byte_of(s, n) = i

\* &s[i..]: defined on character boundaries only (panics otherwise)
slice_from(s, i) == SubSeq(s, chars_before(s, i) + 1, Len(s))

\* &s[..i]
slice_to(s, i) == SubSeq(s, 1, chars_before(s, i))

\* &s[i..j]: panics unless i <= j and both are boundaries
slice_ok(s, i, j) == i <= j /\ is_char_boundary(s, i) /\ is_char_boundary(s, j)
slice(s, i, j) == SubSeq(s, chars_before(s, i) + 1, chars_before(s, j))

\* x - y on usize: panics on overflow in a build with overflow checks, wraps
\* otherwise (the model only ever wraps by less than 2^31)
usize_sub(x, y, wrap) ==
    IF x >= y THEN [v |-> x - y, panic |-> FALSE]
    ELSE IF wrap THEN [v |-> UsizeMax - (y - x - 1), panic |-> FALSE]
    ELSE [v |-> 0, panic |-> TRUE]

\* x + y on usize, likewise
usize_add(x, y, wrap) ==
    IF x <= UsizeMax - y THEN [v |-> x + y, panic |-> FALSE]
    ELSE IF wrap THEN [v |-> y - (UsizeMax - x) - 1, panic |-> FALSE]
    ELSE [v |-> 0, panic |-> TRUE]

-----------------------------------------------------------------------------
(* Cursor *)

Cursor(sl, sb, sc, el, eb, ec) ==
    [start_line |-> sl, start_byte |-> sb, start_character |-> sc,
     end_line |-> el, end_byte |-> eb, end_character |-> ec]

\* Cursor::default, backend.rs:34-45
DefaultCursor == Cursor(0, 0, 0, 0, 0, 0)

\* atomize with its assignments turned round: the start takes the end
atomize_to_end(c) == [c EXCEPT !.start_line = c.end_line,
                               !.start_byte = c.end_byte,
                               !.start_character = c.end_character]

\* Cursor::atomize, backend.rs:23-27
atomize(c) == [c EXCEPT !.end_line = c.start_line,
                        !.end_byte = c.start_byte,
                        !.end_character = c.start_character]

\* Cursor::is_atomic, backend.rs:29-31
is_atomic(c) == c.start_line = c.end_line /\ c.start_byte = c.end_byte


-----------------------------------------------------------------------------
(* move_cursors, per cursor.  A result is [c |-> the cursor, panic |-> BOOLEAN] *)

Moved(c) == [c |-> c, panic |-> FALSE]
MovePanic(c) == [c |-> c, panic |-> TRUE]

\* self.lines[i]: Vec indexing panics out of bounds
has_line(ls, i) == i >= 0 /\ i < Len(ls)

RECURSIVE fold_char_indices(_, _, _)
\* backend.rs:175-180: char_indices().fold(0, |acc, (i, c)| if i < k { acc +
\* c.len_utf8() } else { acc }), where i is the BYTE index of c; n is the
\* number of characters of l already folded
fold_char_indices(l, k, n) ==
    IF n = Len(l) THEN 0
    ELSE (IF byte_of(l, n) < k THEN len_utf8(l[n + 1]) ELSE 0)
         + fold_char_indices(l, k, n + 1)

\* backend.rs:172-184 (Up) and the same text at 202-214 (Down): the cursor
\* c, whose start_line was just changed, takes its column on that line
column_on_line(ls, c, wrap) ==
    IF ~has_line(ls, c.start_line) THEN MovePanic(c)
    ELSE LET l == ls[c.start_line + 1]
             line_chars == usize_sub(Len(l), 1, wrap)
             last_byte == usize_sub(str_len(l), 1, wrap)
         IN  IF line_chars.panic THEN MovePanic(c)
             ELSE IF line_chars.v > c.start_character
             THEN Moved([c EXCEPT !.start_byte = fold_char_indices(l, c.start_character, 0)])
             ELSE IF last_byte.panic THEN MovePanic(c)
             ELSE Moved([c EXCEPT !.start_byte = last_byte.v,
                                  !.start_character = line_chars.v])

\* an arm of move_cursors without its closing cursor.atomize()
not_atomized(r) == r

\* the cursor.atomize() that ends an arm, unless the arm panicked before it
then_atomize(r) == IF r.panic THEN r ELSE Moved(atomize(r.c))

\* backend.rs:169-190
move_up(ls, c, wrap) ==
    IF c.start_line # 0
    THEN then_atomize(column_on_line(ls, [c EXCEPT !.start_line = @ - 1], wrap))
    ELSE Moved(atomize([c EXCEPT !.start_byte = 0, !.start_character = 0]))

\* backend.rs:191-217
move_down(ls, c, wrap) ==
    LET last_line == usize_sub(Len(ls), 1, wrap)
    IN  IF last_line.panic THEN MovePanic(c)
        ELSE IF c.end_line = last_line.v
        THEN \* end_line = len - 1 without a wrap, so the line exists
             IF ~has_line(ls, c.end_line) THEN MovePanic(c)
             ELSE LET l == ls[c.end_line + 1]
                      chars == usize_sub(Len(l), 1, wrap)
                  IN  IF chars.panic THEN MovePanic(c)
                      ELSE LET c1 == [c EXCEPT !.start_character = chars.v]
                           IN  IF chars.v = 0
                               THEN Moved(atomize([c1 EXCEPT !.start_byte = 0]))
                               ELSE IF l = <<>>
                               THEN MovePanic(c1)   \* chars().rev().next().unwrap()
                               ELSE Moved(atomize([c1 EXCEPT !.start_byte =
                                        str_len(l) - len_utf8(l[Len(l)])]))
        ELSE then_atomize(column_on_line(ls, [c EXCEPT !.start_line = @ + 1], wrap))

\* backend.rs:218-236
move_left(ls, c, wrap) ==
    IF ~is_atomic(c) THEN Moved(atomize(c))
    ELSE IF c.start_character # 0
    THEN IF ~has_line(ls, c.start_line) THEN MovePanic(c)
         ELSE LET l == ls[c.start_line + 1]
                  from == usize_sub(c.start_byte, 1, wrap)
              IN  IF from.panic \/ ~is_char_boundary(l, from.v) THEN MovePanic(c)
                  ELSE LET rest == slice_from(l, from.v)
                       IN  IF rest = <<>> THEN MovePanic(c)   \* next().unwrap()
                           ELSE LET b == usize_sub(c.start_byte, len_utf8(Head(rest)), wrap)
                                IN  IF b.panic THEN MovePanic(c)
                                    ELSE Moved(atomize([c EXCEPT
                                            !.start_byte = b.v,
                                            !.start_character = @ - 1]))
    ELSE IF c.start_line # 0
    THEN LET c1 == [c EXCEPT !.start_line = @ - 1]
         IN  IF ~has_line(ls, c1.start_line) THEN MovePanic(c1)
             ELSE LET l == ls[c1.start_line + 1]
                      b == usize_sub(str_len(l), 1, wrap)
                      k == usize_sub(Len(l), 1, wrap)
                  IN  IF b.panic THEN MovePanic(c1)
                      ELSE IF k.panic THEN MovePanic([c1 EXCEPT !.start_byte = b.v])
                      ELSE Moved(atomize([c1 EXCEPT !.start_byte = b.v,
                                                    !.start_character = k.v]))
    ELSE Moved(atomize(c))

\* backend.rs:237-260
move_right(ls, c, wrap) ==
    IF ~is_atomic(c)
    THEN Moved([c EXCEPT !.start_line = c.end_line,
                         !.start_byte = c.end_byte,
                         !.start_character = c.end_character])
    ELSE LET last_line == usize_sub(Len(ls), 1, wrap)
         IN  IF last_line.panic THEN MovePanic(c)
             ELSE IF c.start_line = last_line.v
                     /\ has_line(ls, last_line.v)
                     /\ c.start_character = Len(ls[last_line.v + 1])
             THEN Moved(c)
             ELSE IF c.start_line = last_line.v /\ ~has_line(ls, last_line.v)
             THEN MovePanic(c)     \* self.lines[self.lines.len() - 1]
             ELSE IF ~has_line(ls, c.start_line) THEN MovePanic(c)
             ELSE LET l == ls[c.start_line + 1]
                  IN  IF ~is_char_boundary(l, c.start_character) THEN MovePanic(c)
                      ELSE LET rest == slice_from(l, c.start_character)
                           IN  IF rest = <<>> THEN MovePanic(c)   \* None.unwrap()
                               ELSE IF Head(rest) # "\n"
                               THEN LET b == usize_add(c.start_byte, len_utf8(Head(rest)), wrap)
                                    IN  IF b.panic THEN MovePanic(c)
                                        ELSE Moved(atomize([c EXCEPT
                                                !.start_byte = b.v,
                                                !.start_character = @ + 1]))
                               ELSE Moved(atomize([c EXCEPT
                                        !.start_line = @ + 1,
                                        !.start_byte = 0,
                                        !.start_character = 0]))

\* backend.rs:389-394
Move == {"Up", "Down", "Left", "Right"}

\* the match of backend.rs:168
move_cursor(ls, c, movement, wrap) ==
    CASE movement = "Up" -> move_up(ls, c, wrap)
      [] movement = "Down" -> move_down(ls, c, wrap)
      [] movement = "Left" -> move_left(ls, c, wrap)
      [] movement = "Right" -> move_right(ls, c, wrap)

RECURSIVE move_all(_, _, _, _, _)
\* backend.rs:167: for cursor in self.cursors.iter_mut(); i cursors are done.
\* The result is [cursors, panic]
move_all(ls, cs, movement, wrap, i) ==
    IF i = Len(cs) THEN [cursors |-> cs, panic |-> FALSE]
    ELSE LET r == move_cursor(ls, cs[i + 1], movement, wrap)
             cs1 == [cs EXCEPT ![i + 1] = r.c]
         IN  IF r.panic THEN [cursors |-> cs1, panic |-> TRUE]
             ELSE move_all(ls, cs1, movement, wrap, i + 1)

-----------------------------------------------------------------------------
(* String and Vec operations used by write_character *)

\* String::insert(idx, ch): asserts is_char_boundary(idx)
string_insert(l, idx, ch) == slice_to(l, idx) \o <<ch>> \o slice_from(l, idx)

\* String::remove(idx) panics unless a character starts at idx
string_remove_ok(l, idx) == is_char_boundary(l, idx) /\ idx < str_len(l)
string_remove(l, idx) == slice_to(l, idx) \o Tail(slice_from(l, idx))

\* String::pop: drops the last character, if any
string_pop(l) == IF l = <<>> THEN l ELSE SubSeq(l, 1, Len(l) - 1)

\* Vec::remove(i), 0-based (panics unless i < len)
vec_remove(ls, i) == SubSeq(ls, 1, i) \o SubSeq(ls, i + 2, Len(ls))

\* Vec::insert(i, x), 0-based (panics unless i <= len)
vec_insert(ls, i, x) == SubSeq(ls, 1, i) \o <<x>> \o SubSeq(ls, i + 1, Len(ls))

starts_with(l, pat) == Len(pat) <= Len(l) /\ SubSeq(l, 1, Len(pat)) = pat

RECURSIVE str_replace(_, _, _)
\* str::replace(pat, to) for a non-empty pat: every non-overlapping match,
\* left to right
str_replace(l, pat, to) ==
    IF l = <<>> THEN <<>>
    ELSE IF starts_with(l, pat)
    THEN to \o str_replace(SubSeq(l, Len(pat) + 1, Len(l)), pat, to)
    ELSE <<Head(l)>> \o str_replace(Tail(l), pat, to)

\* char::escape_unicode: \u{NNNN}, the code point in lower-case hexadecimal
hex_digits(ch) ==
    CASE ch = "a" -> <<"6", "1">>
      [] ch = "E" -> <<"e", "9">>
      [] ch = "\t" -> <<"9">>
      [] OTHER -> <<"0">>
escape_unicode(ch) == <<"\\", "u", "{">> \o hex_digits(ch) \o <<"}">>

-----------------------------------------------------------------------------
(* write_character, per cursor.  A result is [lines, saved, c, panic] *)

Wrote(ls, sv, c) == [lines |-> ls, saved |-> sv, c |-> c, panic |-> FALSE]
WritePanic(ls, sv, c) == [lines |-> ls, saved |-> sv, c |-> c, panic |-> TRUE]

RECURSIVE remove_lines(_, _, _, _)
\* backend.rs:274-277: for line in start_line + 1..end_line { saved = false;
\* lines.remove(line) }; the result is [lines, saved, panic]
remove_lines(ls, sv, line, end) ==
    IF line >= end THEN [lines |-> ls, saved |-> sv, panic |-> FALSE]
    ELSE IF ~has_line(ls, line) THEN [lines |-> ls, saved |-> FALSE, panic |-> TRUE]
    ELSE remove_lines(vec_remove(ls, line), FALSE, line + 1, end)

\* backend.rs:273-278
remove_between(ls, sv, c) ==
    IF c.end_line > c.start_line + 1
    THEN remove_lines(ls, sv, c.start_line + 1, c.end_line)
    ELSE [lines |-> ls, saved |-> sv, panic |-> FALSE]

\* write_newline without the + "\n" of line 289: the first half of
\* the split line loses its terminator
write_newline_unterminated(ls, c) ==
    IF ~is_atomic(c) THEN WritePanic(ls, FALSE, c)
    ELSE IF ~has_line(ls, c.start_line) THEN WritePanic(ls, FALSE, c)
    ELSE LET l == ls[c.start_line + 1]
         IN  IF ~is_char_boundary(l, c.start_byte) THEN WritePanic(ls, FALSE, c)
             ELSE LET first_line == slice_to(l, c.start_byte)
                      second_line == slice_from(l, c.start_byte)
                      ls1 == [ls EXCEPT ![c.start_line + 1] = first_line]
                  IN  Wrote(vec_insert(ls1, c.start_line + 1, second_line), FALSE,
                            atomize([c EXCEPT !.start_line = @ + 1,
                                              !.start_byte = 0,
                                              !.start_character = 0]))

\* backend.rs:280-299
write_newline(ls, c) ==
    IF ~is_atomic(c) THEN WritePanic(ls, FALSE, c)       \* unimplemented!()
    ELSE IF ~has_line(ls, c.start_line) THEN WritePanic(ls, FALSE, c)
    ELSE LET l == ls[c.start_line + 1]
         IN  IF ~is_char_boundary(l, c.start_byte) THEN WritePanic(ls, FALSE, c)
             ELSE LET first_line == slice_to(l, c.start_byte)
                      second_line == slice_from(l, c.start_byte)
                      ls1 == [ls EXCEPT ![c.start_line + 1] = first_line \o <<"\n">>]
                  IN  Wrote(vec_insert(ls1, c.start_line + 1, second_line), FALSE,
                            atomize([c EXCEPT !.start_line = @ + 1,
                                              !.start_byte = 0,
                                              !.start_character = 0]))

\* backspace_merge that takes both lines out of the vector (two removes at
\* start_line - 1) and never stores new_line
backspace_merge_drops_both(ls, c) ==
    IF ~has_line(ls, c.start_line - 1) THEN WritePanic(ls, FALSE, c)
    ELSE LET prev == string_pop(ls[c.start_line])
             ls1 == vec_remove(ls, c.start_line - 1)
         IN  IF ~has_line(ls1, c.start_line - 1) THEN WritePanic(ls1, FALSE, c)
             ELSE Wrote(vec_remove(ls1, c.start_line - 1), FALSE,
                        atomize([c EXCEPT !.start_line = @ - 1,
                                          !.start_byte = str_len(prev),
                                          !.start_character = Len(prev)]))

\* backend.rs:303-315: the cursor's line is merged into the line before it
backspace_merge(ls, c) ==
    IF ~has_line(ls, c.start_line - 1) THEN WritePanic(ls, FALSE, c)
    ELSE LET prev == string_pop(ls[c.start_line])
             ls1 == [ls EXCEPT ![c.start_line] = prev]
             new_index == str_len(prev)
             new_char_index == Len(prev)
         IN  IF ~has_line(ls1, c.start_line) THEN WritePanic(ls1, FALSE, c)
             ELSE LET new_line == prev \o ls1[c.start_line + 1]
                      ls2 == [vec_remove(ls1, c.start_line) EXCEPT ![c.start_line] = new_line]
                  IN  Wrote(ls2, FALSE,
                            atomize([c EXCEPT !.start_line = @ - 1,
                                              !.start_byte = new_index,
                                              !.start_character = new_char_index]))

RECURSIVE boundary_at_or_before(_, _)
\* backend.rs:318-322: while !is_char_boundary(index) { index -= 1 }
boundary_at_or_before(l, index) ==
    IF is_char_boundary(l, index) THEN index
    ELSE IF index > str_len(l) THEN str_len(l)      \* no boundary above len
    ELSE boundary_at_or_before(l, index - 1)

\* backend.rs:316-330: the character before the cursor is removed
backspace_char(ls, c, wrap) ==
    IF ~has_line(ls, c.start_line) THEN WritePanic(ls, FALSE, c)
    ELSE LET l == ls[c.start_line + 1]
             index == boundary_at_or_before(l, c.start_byte - 1)
         IN  IF ~string_remove_ok(l, index) THEN WritePanic(ls, FALSE, c)
             ELSE LET ls1 == [ls EXCEPT ![c.start_line + 1] = string_remove(l, index)]
                      c1 == [c EXCEPT !.start_byte = index]
                      k == usize_sub(c.start_character, 1, wrap)
                  IN  IF k.panic THEN WritePanic(ls1, FALSE, c1)
                      ELSE Wrote(ls1, FALSE, atomize([c1 EXCEPT !.start_character = k.v]))

\* write_backspace without line 303's self.saved = false: a merge of two
\* lines leaves the flag as it was
write_backspace_keeps_saved(ls, sv, c, wrap) ==
    IF ~is_atomic(c) THEN WritePanic(ls, sv, c)
    ELSE IF c.start_byte = 0 /\ c.start_line # 0
    THEN [backspace_merge(ls, c) EXCEPT !.saved = sv]
    ELSE IF c.start_line # 0 \/ c.start_byte # 0 THEN backspace_char(ls, c, wrap)
    ELSE Wrote(ls, sv, c)

\* backend.rs:300-334
write_backspace(ls, sv, c, wrap) ==
    IF ~is_atomic(c) THEN WritePanic(ls, sv, c)          \* unimplemented!()
    ELSE IF c.start_byte = 0 /\ c.start_line # 0 THEN backspace_merge(ls, c)
    ELSE IF c.start_line # 0 \/ c.start_byte # 0 THEN backspace_char(ls, c, wrap)
    ELSE Wrote(ls, sv, c)

\* advance with start_byte += 1 in place of c.len_utf8()
advance_one_byte(ls, c, ch, wrap) ==
    LET c1 == [c EXCEPT !.start_byte = @ + 1]
        k == usize_add(c.start_character, 1, wrap)
    IN  IF k.panic THEN WritePanic(ls, FALSE, c1)
        ELSE Wrote(ls, FALSE, atomize([c1 EXCEPT !.start_character = k.v]))

\* backend.rs:355-358 (and the same text at 342-345 and 368-371)
advance(ls, c, ch, wrap) ==
    LET c1 == [c EXCEPT !.start_byte = @ + len_utf8(ch)]
        k == usize_add(c.start_character, 1, wrap)
    IN  IF k.panic THEN WritePanic(ls, FALSE, c1)
        ELSE Wrote(ls, FALSE, atomize([c1 EXCEPT !.start_character = k.v]))

\* backend.rs:338-345
insert_at_caret(ls, c, ch, wrap) ==
    IF ~has_line(ls, c.start_line) THEN WritePanic(ls, FALSE, c)
    ELSE LET l == ls[c.start_line + 1]
         IN  IF ~is_char_boundary(l, c.start_byte) THEN WritePanic(ls, FALSE, c)
             ELSE advance([ls EXCEPT ![c.start_line + 1] = string_insert(l, c.start_byte, ch)],
                          c, ch, wrap)

\* backend.rs:346-358
replace_in_line(ls, c, ch, wrap) ==
    IF ~has_line(ls, c.start_line) THEN WritePanic(ls, FALSE, c)
    ELSE LET l == ls[c.start_line + 1]
         IN  IF ~slice_ok(l, c.start_byte, c.end_byte) THEN WritePanic(ls, FALSE, c)
             ELSE LET pattern == slice(l, c.start_byte, c.end_byte)
                      new_line == str_replace(l, pattern, escape_unicode(ch))
                  IN  advance([ls EXCEPT ![c.start_line + 1] = new_line], c, ch, wrap)

\* backend.rs:359-372
replace_across_lines(ls, c, ch, wrap) ==
    IF ~has_line(ls, c.end_line) THEN WritePanic(ls, FALSE, c)
    ELSE LET second_line == ls[c.end_line + 1]
             ls1 == vec_remove(ls, c.end_line)
         IN  IF ~is_char_boundary(second_line, c.end_byte) THEN WritePanic(ls1, FALSE, c)
             ELSE IF ~has_line(ls1, c.start_line) THEN WritePanic(ls1, FALSE, c)
             ELSE IF ~is_char_boundary(ls1[c.start_line + 1], c.start_byte)
             THEN WritePanic(ls1, FALSE, c)
             ELSE LET second_line_preserve == slice_from(second_line, c.end_byte)
                      first_line_preserve == slice_from(ls1[c.start_line + 1], c.start_byte)
                  IN  advance([ls1 EXCEPT ![c.start_line + 1] =
                                   first_line_preserve \o second_line_preserve],
                              c, ch, wrap)

\* backend.rs:336-373
write_other(ls, c, ch, wrap) ==
    IF is_atomic(c) THEN insert_at_caret(ls, c, ch, wrap)
    ELSE IF c.start_line = c.end_line THEN replace_in_line(ls, c, ch, wrap)
    ELSE replace_across_lines(ls, c, ch, wrap)

\* backend.rs:273-374: the body of the loop for one cursor
write_cursor(ls, sv, c, ch, wrap) ==
    LET r == remove_between(ls, sv, c)
    IN  IF r.panic THEN WritePanic(r.lines, r.saved, c)
        ELSE CASE ch = "\n" -> write_newline(r.lines, c)
               [] ch = BACKSPACE -> write_backspace(r.lines, r.saved, c, wrap)
               [] ch = DEL -> WritePanic(r.lines, r.saved, c)    \* unimplemented!()
               [] OTHER -> write_other(r.lines, c, ch, wrap)

RECURSIVE write_all_reversed(_, _, _, _, _, _)
\* the loop of write_character over self.cursors.iter_mut().rev(): the last
\* cursor of the collection is written first
write_all_reversed(ls, sv, cs, ch, wrap, i) ==
    IF i = Len(cs) THEN [lines |-> ls, saved |-> sv, cursors |-> cs, panic |-> FALSE]
    ELSE LET r == write_cursor(ls, sv, cs[Len(cs) - i], ch, wrap)
             cs1 == [cs EXCEPT ![Len(cs) - i] = r.c]
         IN  IF r.panic
             THEN [lines |-> r.lines, saved |-> r.saved, cursors |-> cs1, panic |-> TRUE]
             ELSE write_all_reversed(r.lines, r.saved, cs1, ch, wrap, i + 1)

RECURSIVE write_all(_, _, _, _, _, _)
\* backend.rs:272: for cursor in self.cursors.iter_mut(); i cursors are done.
\* The result is [lines, saved, cursors, panic]
write_all(ls, sv, cs, ch, wrap, i) ==
    IF i = Len(cs) THEN [lines |-> ls, saved |-> sv, cursors |-> cs, panic |-> FALSE]
    ELSE LET r == write_cursor(ls, sv, cs[i + 1], ch, wrap)
             cs1 == [cs EXCEPT ![i + 1] = r.c]
         IN  IF r.panic
             THEN [lines |-> r.lines, saved |-> r.saved, cursors |-> cs1, panic |-> TRUE]
             ELSE write_all(r.lines, r.saved, cs1, ch, wrap, i + 1)

\* the assertion of line 270 without its is_control test: every character
\* is let through
accepts_any(ch) == TRUE

\* backend.rs:270: assert!(!c.is_control() || ALLOWED_CONTROL.contains(&c))
accepts(ch) == ~is_control(ch) \/ ch \in ALLOWED_CONTROL

\* backend.rs:269-376.  The result is [lines, saved, cursors, panic]
write_character(ls, sv, cs, ch, wrap) ==
    IF ~accepts(ch)
    THEN [lines |-> ls, saved |-> sv, cursors |-> cs, panic |-> TRUE]
    ELSE write_all(ls, sv, cs, ch, wrap, 0)

-----------------------------------------------------------------------------
(* Files *)

Paths == {"p1", "p2"}

\* the contents the file at "p1" may have when the buffer is constructed
Files ==
    { <<>>,
      <<"a">>,
      <<"a", "\r", "\n">>,
      <<"E", "a", "E", "\n", "a", "a", "\n">>,
      <<"a", "\n", "\n", "E", "\n">> }

RECURSIVE first_newline(_, _)
\* 1-based index of the first "\n" of s at or after index n, 0 if there is none
first_newline(s, n) ==
    IF n > Len(s) THEN 0
    ELSE IF s[n] = "\n" THEN n ELSE first_newline(s, n + 1)

RECURSIVE read_lines(_)
\* BufRead::lines: the lines of the content, each without its "\n" or "\r\n"
read_lines(content) ==
    IF content = <<>> THEN <<>>
    ELSE LET n == first_newline(content, 1)
         IN  IF n = 0 THEN <<content>>
             ELSE LET line == SubSeq(content, 1, n - 1)
                      stripped == IF line # <<>> /\ line[Len(line)] = "\r"
                                  THEN SubSeq(line, 1, Len(line) - 1) ELSE line
                  IN  <<stripped>> \o read_lines(SubSeq(content, n + 1, Len(content)))

\* backend.rs:94: self.lines.push(line + "\n"), for every line read
with_newlines(ls) == [i \in 1..Len(ls) |-> ls[i] \o <<"\n">>]

RECURSIVE concat(_)
\* backend.rs:144-149: the bytes write_all puts in the file, line after line
concat(ls) == IF ls = <<>> THEN <<>> ELSE Head(ls) \o concat(Tail(ls))

-----------------------------------------------------------------------------
(* The state after construction *)

Call(op, arg, result, opened, callbacks) ==
    [op |-> op, arg |-> arg, result |-> result, opened |-> opened, callbacks |-> callbacks]

\* backend.rs:58-83: TextBuffer::new(path); with a path, the file exists
\* (metadata() succeeded)
Init ==
    /\ path \in {NoPath, "p1"}
    /\ fs \in IF path = NoPath
              THEN {[p \in Paths |-> NoFile]}
              ELSE {[p \in Paths |-> IF p = "p1" THEN File(f) ELSE NoFile] : f \in Files}
    /\ size = IF path = NoPath THEN 0 ELSE str_len(fs[path].bytes)
    /\ lines = IF path = NoPath THEN << <<>> >> ELSE <<>>
    /\ saved = (path # NoPath)
    /\ loaded = FALSE
    /\ cursors = <<>>
    /\ panicked = FALSE
    /\ last = Call("new", path, "ok", FALSE, 0)
    /\ persisted = lines
    /\ edits = 0
    /\ build = "unknown"

-----------------------------------------------------------------------------
(* The cursor sets a caller hands to set_cursors *)

\* the codepoints of a line's content: the line without its terminator
content_chars(l) == IF l # <<>> /\ l[Len(l)] = "\n" THEN Len(l) - 1 ELSE Len(l)

\* the caret positions of a buffer: every column of every line's content, the
\* column before the terminator included
Positions(ls) ==
    UNION { { [line |-> i, byte |-> byte_of(ls[i + 1], n), character |-> n] :
                n \in 0..content_chars(ls[i + 1]) } : i \in 0..(Len(ls) - 1) }

Caret(p) == Cursor(p.line, p.byte, p.character, p.line, p.byte, p.character)

\* a cursor from p (start) to q (end), in either order
Selection(p, q) == Cursor(p.line, p.byte, p.character, q.line, q.byte, q.character)

\* p is before q in the document
Before(p, q) == p.line < q.line \/ (p.line = q.line /\ p.byte < q.byte)

\* no cursor, one cursor of any shape, or up to MaxCursors carets at distinct
\* positions, in document order
CursorSets(ls) ==
    LET carets == { Caret(p) : p \in Positions(ls) }
        Pos(c) == [line |-> c.start_line, byte |-> c.start_byte]
    IN  {<<>>}
        \cup { <<Selection(p, q)>> : p \in Positions(ls), q \in Positions(ls) }
        \cup UNION { { cs \in [1..n -> carets] :
                         \A i \in 1..(n - 1) : Before(Pos(cs[i]), Pos(cs[i + 1])) } :
                     n \in 2..MaxCursors }

-----------------------------------------------------------------------------
(* The operations of TextBuffer *)

\* the characters a caller types: a one-byte character (an allowed control
\* character), a two-byte character, the other allowed control characters,
\* and a control character that is not allowed
Typed == {"\t", "E", "\n", BACKSPACE, DEL, "ESC"}

\* backend.rs:85-100.  The caller loads once (main.rs:55-56); a second load
\* would push the lines of the file again.
Load ==
    /\ ~panicked
    /\ ~loaded
    /\ IF path = NoPath
       THEN \* self.path.as_ref().unwrap()
            /\ panicked' = TRUE
            /\ last' = Call("load", "", "panic", FALSE, 0)
            /\ UNCHANGED <<lines, loaded, persisted>>
       ELSE IF ~fs[path].exists
       THEN \* try!(fs::File::open(..))
            /\ last' = Call("load", "", "err", FALSE, 0)
            /\ UNCHANGED <<lines, loaded, persisted, panicked>>
       ELSE LET read == with_newlines(read_lines(fs[path].bytes))
            IN  /\ lines' = lines \o read
                /\ loaded' = TRUE
                /\ persisted' = lines'
                /\ last' = Call("load", "", "ok", TRUE, Len(read))
                /\ UNCHANGED panicked
    /\ UNCHANGED <<path, size, saved, cursors, fs, edits, build>>

\* backend.rs:121-123
SetPath ==
    /\ ~panicked
    /\ \E p \in Paths :
        /\ path' = p
        /\ last' = Call("set_path", p, "ok", FALSE, 0)
    /\ UNCHANGED <<size, lines, saved, loaded, cursors, fs, panicked, persisted, edits, build>>

\* backend.rs:125-128
RemovePath ==
    /\ ~panicked
    /\ saved' = FALSE
    /\ path' = NoPath
    /\ last' = Call("remove_path", "", "ok", FALSE, 0)
    /\ UNCHANGED <<size, lines, loaded, cursors, fs, panicked, persisted, edits, build>>

\* save without the if !self.saved of line 133: the file is written on every
\* call
save_always(failure, written) ==
    IF path = NoPath
    THEN /\ panicked' = TRUE
         /\ last' = Call("save", "", "panic", FALSE, 0)
         /\ UNCHANGED <<saved, fs, persisted>>
    ELSE IF failure = "open"
    THEN /\ last' = Call("save", "", "err", FALSE, 0)
         /\ UNCHANGED <<saved, fs, panicked, persisted>>
    ELSE IF failure = "write"
    THEN /\ fs' = [fs EXCEPT ![path] = File(concat(SubSeq(lines, 1, written)))]
         /\ last' = Call("save", "", "err", TRUE, written)
         /\ UNCHANGED <<saved, panicked, persisted>>
    ELSE /\ fs' = [fs EXCEPT ![path] = File(concat(lines))]
         /\ saved' = TRUE
         /\ persisted' = lines
         /\ last' = Call("save", "", "ok", TRUE, Len(lines))
         /\ UNCHANGED panicked

\* backend.rs:130-155.  failure: "none", or the try! that returns an I/O
\* error: "open", or "write", the write_all of line number written + 1
save(failure, written) ==
    IF saved
    THEN /\ last' = Call("save", "", "ok", FALSE, 0)
         /\ UNCHANGED <<saved, fs, panicked, persisted>>
    ELSE IF path = NoPath
    THEN \* self.path.as_ref().unwrap()
         /\ panicked' = TRUE
         /\ last' = Call("save", "", "panic", FALSE, 0)
         /\ UNCHANGED <<saved, fs, persisted>>
    ELSE IF failure = "open"
    THEN /\ last' = Call("save", "", "err", FALSE, 0)
         /\ UNCHANGED <<saved, fs, panicked, persisted>>
    ELSE IF failure = "write"
    THEN /\ fs' = [fs EXCEPT ![path] = File(concat(SubSeq(lines, 1, written)))]
         /\ last' = Call("save", "", "err", TRUE, written)
         /\ UNCHANGED <<saved, panicked, persisted>>
    ELSE /\ fs' = [fs EXCEPT ![path] = File(concat(lines))]
         /\ saved' = TRUE
         /\ persisted' = lines
         /\ last' = Call("save", "", "ok", TRUE, Len(lines))
         /\ UNCHANGED panicked

\* A failing write_all is explored at the first line, which leaves the file
\* truncated and empty; at a later line it leaves a longer prefix and the
\* same buffer.
Save ==
    /\ ~panicked
    /\ \E failure \in {"none", "open", "write"} :
          /\ failure = "write" => lines # <<>>
          /\ save(failure, 0)
    /\ UNCHANGED <<path, size, lines, loaded, cursors, edits, build>>

\* backend.rs:161-164.  The caller hands in valid cursors (the TODO of line
\* 162), once, before the first edit (main.rs:57)
SetCursors ==
    /\ ~panicked
    /\ cursors = <<>> /\ edits = 0
    /\ \E cs \in CursorSets(lines) :
        /\ cursors' = cs
        /\ last' = Call("set_cursors", "", "ok", FALSE, 0)
    /\ UNCHANGED <<path, size, lines, saved, loaded, fs, panicked, persisted, edits, build>>

\* The build (with or without overflow checks) is fixed for a run and shows
\* only when a subtraction or addition overflows: until then both are possible
Builds(differs) ==
    IF build = "unknown" THEN (IF differs THEN BOOLEAN ELSE {FALSE})
    ELSE {build = "wrapping"}
Shown(wrap, differs) ==
    IF ~differs THEN build ELSE IF wrap THEN "wrapping" ELSE "checked"

\* backend.rs:166-263
MoveCursors ==
    /\ ~panicked
    /\ \E movement \in Move :
        \E wrapping \in {move_all(lines, cursors, movement, TRUE, 0)},
           checked \in {move_all(lines, cursors, movement, FALSE, 0)} :
        \E wrap \in Builds(wrapping # checked) :
        \E r \in {IF wrap THEN wrapping ELSE checked} :
                /\ cursors' = r.cursors
                /\ panicked' = r.panic
                /\ build' = Shown(wrap, wrapping # checked)
                /\ last' = Call("move_cursors", movement,
                                IF r.panic THEN "panic" ELSE "ok", FALSE, 0)
    /\ UNCHANGED <<path, size, lines, saved, loaded, fs, persisted, edits>>

\* backend.rs:269-376
WriteCharacter ==
    /\ ~panicked
    /\ edits < MaxEdits
    /\ \E ch \in Typed :
        \E wrapping \in {write_character(lines, saved, cursors, ch, TRUE)},
           checked \in {write_character(lines, saved, cursors, ch, FALSE)} :
        \E wrap \in Builds(wrapping # checked) :
        \E r \in {IF wrap THEN wrapping ELSE checked} :
                /\ build' = Shown(wrap, wrapping # checked)
                /\ lines' = r.lines
                /\ saved' = r.saved
                /\ cursors' = r.cursors
                /\ panicked' = r.panic
                /\ last' = Call("write_character", ch,
                                IF r.panic THEN "panic" ELSE "ok", FALSE, 0)
    /\ edits' = edits + 1
    /\ UNCHANGED <<path, size, loaded, fs, persisted>>

Next ==
    \/ Load
    \/ SetPath
    \/ RemovePath
    \/ Save
    \/ SetCursors
    \/ MoveCursors
    \/ (edits < MaxInterleavedEdits /\ WriteCharacter)

\* every operation of the buffer
Spec == Init /\ [][Next]_vars

\* The editing operations read and write lines, saved and cursors only, and
\* the persistence operations never touch the cursors: each group is also
\* explored on its own.

NextEdit ==
    \/ Load
    \/ SetCursors
    \/ MoveCursors
    \/ WriteCharacter

\* construction, load, set_cursors, then movement and edits
SpecEdit == Init /\ [][NextEdit]_vars

NextFiles ==
    \/ Load
    \/ SetCursors
    \/ WriteCharacter
    \/ Save
    \/ SetPath
    \/ RemovePath

\* construction, load, set_cursors, then edits, saves and path changes
SpecFiles == Init /\ [][NextFiles]_vars

NextRoundTrip ==
    \/ Load
    \/ SetCursors
    \/ Save

\* construction, load, set_cursors and saves: a buffer that is never edited
SpecRoundTrip == Init /\ [][NextRoundTrip]_vars

-----------------------------------------------------------------------------
(* What the properties speak of: the bytes of a line, and the last call *)

RECURSIVE Bytes(_)
\* the encoding of a String: byte k of character ch is <<ch, k>>
Bytes(s) ==
    IF s = <<>> THEN <<>>
    ELSE [k \in 1..len_utf8(Head(s)) |-> <<Head(s), k>>] \o Bytes(Tail(s))

\* byte offset b is on a character boundary of line l
OnBoundary(l, b) ==
    /\ b >= 0 /\ b <= Len(Bytes(l))
    /\ b < Len(Bytes(l)) => Bytes(l)[b + 1][2] = 1

\* the number of codepoints of l that start before byte offset b
CodepointsBefore(l, b) == Cardinality({ j \in 1..b : Bytes(l)[j][2] = 1 })

\* the line without its terminator
Content(l) == IF l # <<>> /\ l[Len(l)] = "\n" THEN SubSeq(l, 1, Len(l) - 1) ELSE l

\* the start of cursor c is a position of the buffer ls
ValidStart(ls, c) ==
    /\ c.start_line >= 0 /\ c.start_line < Len(ls)
    /\ OnBoundary(ls[c.start_line + 1], c.start_byte)

\* ... and its column is the number of codepoints before its byte offset
ConsistentStart(ls, c) ==
    /\ ValidStart(ls, c)
    /\ c.start_character = CodepointsBefore(ls[c.start_line + 1], c.start_byte)

\* the step is a call of op with argument arg
Calls(op, arg) == last'.op = op /\ last'.arg = arg

\* the step is a call of op with argument arg that returned
Returns(op, arg) == Calls(op, arg) /\ last'.result = "ok"

\* the buffer holds one cursor, a caret at a position of the buffer
OneCaret == Len(cursors) = 1 /\ is_atomic(cursors[1]) /\ ConsistentStart(lines, cursors[1])

\* all lines but those with 0-based index in 'but' are as before, in order;
\* shift is the change of the index of the lines after them
OthersKept(but, shift) ==
    /\ Len(lines') = Len(lines) + shift
    /\ \A i \in 0..(Len(lines) - 1) :
         /\ (\A j \in but : i < j) => lines'[i + 1] = lines[i + 1]
         /\ (\A j \in but : i > j) => lines'[i + 1 + shift] = lines[i + 1]

-----------------------------------------------------------------------------
(* Properties *)

\* C1: in a buffer with at least one line, after any sequence of move_cursors
\* and completed write_character calls from valid cursors, the start of every
\* cursor is on an existing line, on a character boundary of that line.
C1_CursorsStayValid ==
    (~panicked /\ Len(lines) >= 1) =>
        \A i \in 1..Len(cursors) : ValidStart(lines, cursors[i])

\* C2: a cursor whose column is the number of codepoints before its byte
\* offset has, after one move_cursors step that leaves it on a line of the
\* buffer, again a column equal to the number of codepoints of that line
\* before its byte offset.
C2_ColumnStaysConsistent ==
    [][ \A m \in Move :
          Returns("move_cursors", m) =>
            \A i \in 1..Len(cursors) :
              (ConsistentStart(lines, cursors[i])
                 /\ cursors'[i].start_line < Len(lines))
                => ConsistentStart(lines, cursors'[i]) ]_vars

\* C3: write_character with a control character other than tab, newline,
\* backspace or delete is rejected and changes neither the lines, nor any
\* cursor, nor the saved flag.
C3_ControlRejected ==
    [][ Calls("write_character", "ESC") =>
          /\ last'.result = "panic"
          /\ lines' = lines
          /\ cursors' = cursors
          /\ saved' = saved ]_vars

\* C3 happens: ESC was typed into a loaded buffer that has a cursor
C3_Witness ==
    /\ last.op = "write_character" /\ last.arg = "ESC" /\ last.result = "panic"
    /\ lines # <<>> /\ cursors # <<>> /\ saved

\* C4: with one valid caret at (L, b, k), write_character(c), c not newline,
\* backspace or delete, makes line L its first b bytes, the encoding of c,
\* then its remaining bytes, keeps the other lines, and leaves the caret at
\* (L, b + len_utf8(c), k + 1).
C4_InsertAtCaret ==
    [][ \A ch \in {"\t", "E"} :
          (Calls("write_character", ch) /\ OneCaret) =>
            LET c == cursors[1]
                L == c.start_line
                b == c.start_byte
                old == Bytes(lines[L + 1])
            IN  /\ last'.result = "ok"
                /\ Bytes(lines'[L + 1]) =
                     SubSeq(old, 1, b) \o Bytes(<<ch>>) \o SubSeq(old, b + 1, Len(old))
                /\ OthersKept({L}, 0)
                /\ cursors' = <<Caret([line |-> L, byte |-> b + len_utf8(ch),
                                       character |-> c.start_character + 1])>> ]_vars

\* C4 happens: the two-byte character was typed at the end of "a"
C4_Witness ==
    /\ last.op = "write_character" /\ last.arg = "E" /\ last.result = "ok"
    /\ lines = << <<"a", "E", "\n">> >>
    /\ cursors = <<Caret([line |-> 0, byte |-> 3, character |-> 2])>>

\* C5: with one caret at byte 0 of a line L > 0, write_character(BACKSPACE)
\* replaces lines L-1 and L by the content of L-1 without its terminator
\* followed by line L, keeps the other lines in order, and leaves the caret on
\* line L-1 at the byte length and codepoint count of the content of L-1.
C5_BackspaceMerges ==
    [][ (/\ Calls("write_character", BACKSPACE)
         /\ Len(cursors) = 1 /\ is_atomic(cursors[1])
         /\ cursors[1].start_byte = 0
         /\ cursors[1].start_line > 0 /\ cursors[1].start_line < Len(lines)) =>
            LET L == cursors[1].start_line
                before == Content(lines[L])
            IN  /\ last'.result = "ok"
                /\ lines'[L] = before \o lines[L + 1]
                /\ OthersKept({L - 1, L}, -1)
                /\ cursors' = <<Caret([line |-> L - 1, byte |-> Len(Bytes(before)),
                                       character |-> Len(before)])>> ]_vars

\* C6: with one valid caret at (L, b), write_character("\n") replaces line L
\* by its first b bytes followed by a terminator, and its remaining bytes;
\* the other lines keep their content and order; the caret is at (L+1, 0, 0).
C6_NewlineSplits ==
    [][ (Calls("write_character", "\n") /\ OneCaret) =>
            LET L == cursors[1].start_line
                b == cursors[1].start_byte
                old == Bytes(lines[L + 1])
            IN  /\ last'.result = "ok"
                /\ Bytes(lines'[L + 1]) = SubSeq(old, 1, b) \o Bytes(<<"\n">>)
                /\ Bytes(lines'[L + 2]) = SubSeq(old, b + 1, Len(old))
                /\ Len(lines') = Len(lines) + 1
                /\ \A i \in 0..(Len(lines) - 1) :
                     /\ i < L => lines'[i + 1] = lines[i + 1]
                     /\ i > L => lines'[i + 2] = lines[i + 1]
                /\ cursors' = <<Caret([line |-> L + 1, byte |-> 0, character |-> 0])>> ]_vars

\* C6 happens: "EaE" was split after its first character
C6_Witness ==
    /\ last.op = "write_character" /\ last.arg = "\n" /\ last.result = "ok"
    /\ lines = << <<"E", "\n">>, <<"a", "E", "\n">>, <<"a", "a", "\n">> >>
    /\ cursors = <<Caret([line |-> 1, byte |-> 0, character |-> 0])>>

\* C7: a caret on the last line, directly before that line's terminator, is
\* left where it is by move_cursors(Right).
C7_RightAtEndStays ==
    [][ Calls("move_cursors", "Right") =>
          \A i \in 1..Len(cursors) :
            LET c == cursors[i]
            IN  (/\ is_atomic(c) /\ ConsistentStart(lines, c)
                 /\ c.start_line = Len(lines) - 1
                 /\ lines[c.start_line + 1] # Content(lines[c.start_line + 1])
                 /\ c.start_character = Len(Content(lines[c.start_line + 1])))
                => /\ last'.result = "ok"
                   /\ cursors'[i].start_line = c.start_line
                   /\ cursors'[i].start_byte = c.start_byte
                   /\ cursors'[i].start_character = c.start_character ]_vars

\* C8: move_cursors(Down) leaves every cursor whose start line is the last
\* line as a caret on that line, at the codepoint count and byte length of
\* the line's content.
C8_DownOnLastLine ==
    [][ Calls("move_cursors", "Down") =>
          \A i \in 1..Len(cursors) :
            LET c == cursors[i]
            IN  (c.start_line = Len(lines) - 1 /\ Len(lines) >= 1)
                => LET content == Content(lines[c.start_line + 1])
                   IN  /\ last'.result = "ok"
                       /\ cursors'[i] = Caret([line |-> c.start_line,
                                               byte |-> Len(Bytes(content)),
                                               character |-> Len(content)]) ]_vars

\* C9: a write_character call that changes the lines leaves saved false, and
\* whenever saved is true the lines are those of the last completed load or
\* save.
C9_SavedMeansUnchanged ==
    /\ [][ \A ch \in Typed :
             (Calls("write_character", ch) /\ lines' # lines) => ~saved' ]_vars
    /\ [](saved => lines = persisted)

\* C9 happens: a write into a loaded, saved buffer changed its lines
C9_Witness ==
    /\ last.op = "write_character" /\ loaded /\ path # NoPath
    /\ lines # persisted /\ ~saved

\* C10: a save of a dirty buffer writes every line and sets saved; a save
\* directly after a completed save opens and writes nothing, calls the
\* callback zero times and returns success.
C10_SaveTwiceWritesOnce ==
    [][ Calls("save", "") =>
          /\ (~saved /\ path # NoPath /\ last'.result = "ok") =>
                /\ fs'[path] = File(concat(lines))
                /\ last'.opened /\ last'.callbacks = Len(lines)
                /\ saved'
          /\ (last.op = "save" /\ last.result = "ok") =>
                /\ last' = Call("save", "", "ok", FALSE, 0)
                /\ fs' = fs /\ saved' = saved ]_vars

\* C10 happens: an edited buffer was saved, and saved again
C10_Witness ==
    /\ last = Call("save", "", "ok", FALSE, 0)
    /\ saved /\ path = "p1"
    /\ lines = << <<"E", "a", "\n">> >>
    /\ fs["p1"] = File(<<"E", "a", "\n">>)

\* the bytes of a file whose final line, if it lacked a terminator, gained one
Terminated(bytes) ==
    IF bytes # <<>> /\ bytes[Len(bytes)] # "\n" THEN bytes \o <<"\n">> ELSE bytes

\* C11 as claimed: a save directly after the load of a buffer constructed on
\* a file leaves the file with its original bytes, a final line that lacked
\* a terminator having gained one in the file.
C11_RoundTripTerminates ==
    [][ (Calls("save", "") /\ last.op = "load" /\ last.result = "ok") =>
          /\ last'.result = "ok"
          /\ fs'[path] = File(Terminated(fs[path].bytes)) ]_vars

\* C11 amended: a save directly after the load of a buffer constructed on a
\* file opens and writes nothing; the file keeps its original bytes, a
\* missing final terminator included, and only the stored lines have gained
\* the terminator.
C11_RoundTripKeepsFile ==
    [][ (Calls("save", "") /\ last.op = "load" /\ last.result = "ok") =>
          /\ last'.result = "ok" /\ ~last'.opened
          /\ fs' = fs
          /\ \A i \in 1..Len(lines) : lines[i][Len(lines[i])] = "\n" ]_vars

\* C11 happens: the file "a", without final terminator, was loaded and saved
C11_Witness ==
    /\ last = Call("save", "", "ok", FALSE, 0)
    /\ loaded /\ edits = 0
    /\ lines = << <<"a", "\n">> >>
    /\ fs["p1"] = File(<<"a">>)

\* C12: in every state the buffer reaches without a panic every stored line,
\* the final one included, ends with the terminator and holds no other
\* terminator.
C12_LinesTerminated ==
    ~panicked =>
        \A i \in 1..Len(lines) :
            /\ lines[i] # <<>>
            /\ \A k \in 1..Len(lines[i]) : (lines[i][k] = "\n") <=> (k = Len(lines[i]))

\* the caret at the end of a cursor
EndOf(c) == Cursor(c.end_line, c.end_byte, c.end_character,
                   c.end_line, c.end_byte, c.end_character)

\* the buffer holds one cursor, a selection between two positions of the
\* buffer, its start before its end
OneSelection ==
    /\ Len(cursors) = 1
    /\ ConsistentStart(lines, cursors[1])
    /\ ConsistentStart(lines, EndOf(cursors[1]))
    /\ \/ cursors[1].start_line < cursors[1].end_line
       \/ /\ cursors[1].start_line = cursors[1].end_line
          /\ cursors[1].start_byte < cursors[1].end_byte

\* C13: with one selection inside a line, write_character of a character
\* that is no control character makes the line its bytes before start_byte,
\* the character, then its bytes from end_byte on; the other lines are
\* kept, and the cursor is a caret directly after the character.
C13_SelectionReplaced ==
    [][ (/\ Calls("write_character", "E")
         /\ OneSelection
         /\ cursors[1].start_line = cursors[1].end_line) =>
            LET c == cursors[1]
                L == c.start_line
                old == Bytes(lines[L + 1])
            IN  /\ last'.result = "ok"
                /\ Bytes(lines'[L + 1]) =
                     SubSeq(old, 1, c.start_byte) \o Bytes(<<"E">>)
                       \o SubSeq(old, c.end_byte + 1, Len(old))
                /\ OthersKept({L}, 0)
                /\ cursors' = <<Caret([line |-> L, byte |-> c.start_byte + len_utf8("E"),
                                       character |-> c.start_character + 1])>> ]_vars

\* C14: with one selection from a line to a later line, write_character of a
\* character that is no control character leaves at index start_line the
\* start line's bytes before start_byte, the character, then the end line's
\* bytes from end_byte on, and the cursor as a caret on start_line at byte
\* start_byte + the character's encoded length.
C14_LinesJoinedAtCharacter ==
    [][ (/\ Calls("write_character", "E")
         /\ OneSelection
         /\ cursors[1].start_line < cursors[1].end_line) =>
            LET c == cursors[1]
                first == Bytes(lines[c.start_line + 1])
                second == Bytes(lines[c.end_line + 1])
            IN  /\ last'.result = "ok"
                /\ Bytes(lines'[c.start_line + 1]) =
                     SubSeq(first, 1, c.start_byte) \o Bytes(<<"E">>)
                       \o SubSeq(second, c.end_byte + 1, Len(second))
                /\ Len(cursors') = 1 /\ is_atomic(cursors'[1])
                /\ cursors'[1].start_line = c.start_line
                /\ cursors'[1].start_byte = c.start_byte + len_utf8("E") ]_vars

\* C15: with one selection that has lines strictly between its start line
\* and its end line, write_character of a character that is no control
\* character takes end_line - start_line lines away; every line before
\* start_line and every line after end_line is kept, in order.
C15_LinesBetweenRemoved ==
    [][ (/\ Calls("write_character", "E")
         /\ OneSelection
         /\ cursors[1].start_line + 1 < cursors[1].end_line) =>
            /\ last'.result = "ok"
            /\ OthersKept(cursors[1].start_line..cursors[1].end_line,
                          cursors[1].start_line - cursors[1].end_line) ]_vars

\* the caret on line L (0-based) of the buffer before its codepoint number k
CaretAt(L, k) ==
    Caret([line |-> L, byte |-> byte_of(lines[L + 1], k), character |-> k])

\* C16: one caret at a position of the buffer is moved by Left one codepoint
\* back, or from column 0 to the end of the content of the line before, or
\* at (0, 0) not at all; and by Right, unless it is at the end of the
\* buffer, one codepoint on, or from the end of a line's content to column 0
\* of the next line.
C16_LeftRightStep ==
    [][ OneCaret => 
          LET L == cursors[1].start_line
              k == cursors[1].start_character
              n == Len(Content(lines[L + 1]))
          IN  /\ Calls("move_cursors", "Left") =>
                    /\ last'.result = "ok"
                    /\ cursors' = << IF k > 0 THEN CaretAt(L, k - 1)
                                     ELSE IF L > 0
                                     THEN CaretAt(L - 1, Len(Content(lines[L])))
                                     ELSE cursors[1] >>
              /\ (Calls("move_cursors", "Right") /\ k < n) =>
                    /\ last'.result = "ok"
                    /\ cursors' = <<CaretAt(L, k + 1)>>
              /\ (Calls("move_cursors", "Right") /\ k = n /\ L + 1 < Len(lines)) =>
                    /\ last'.result = "ok"
                    /\ cursors' = <<CaretAt(L + 1, 0)>> ]_vars

Min(a, b) == IF a < b THEN a ELSE b

\* C17: Up moves a cursor whose start is at column k of a line L > 0 to line
\* L - 1, and Down one whose start is on a line L that is not the last to
\* line L + 1, at column min(k, codepoints of the content of that line); Up
\* on line 0 yields (line 0, byte 0, column 0).
C17_VerticalKeepsColumn ==
    [][ \A i \in 1..Len(cursors) :
          ConsistentStart(lines, cursors[i]) =>
            LET L == cursors[i].start_line
                k == cursors[i].start_character
            IN  /\ (Calls("move_cursors", "Up") /\ L > 0) =>
                      /\ last'.result = "ok"
                      /\ cursors'[i].start_line = L - 1
                      /\ cursors'[i].start_character = Min(k, Len(Content(lines[L])))
                /\ (Calls("move_cursors", "Up") /\ L = 0) =>
                      /\ last'.result = "ok"
                      /\ cursors'[i].start_line = 0
                      /\ cursors'[i].start_byte = 0
                      /\ cursors'[i].start_character = 0
                /\ (Calls("move_cursors", "Down") /\ L + 1 < Len(lines)) =>
                      /\ last'.result = "ok"
                      /\ cursors'[i].start_line = L + 1
                      /\ cursors'[i].start_character = Min(k, Len(Content(lines[L + 2]))) ]_vars

\* the caret at the start of a cursor
StartOf(c) == Cursor(c.start_line, c.start_byte, c.start_character,
                     c.start_line, c.start_byte, c.start_character)

\* C18: move_cursors(Left) leaves a cursor that is not atomic as the caret at
\* its start, and move_cursors(Right) leaves it as the caret at its end.
C18_HorizontalCollapses ==
    [][ \A i \in 1..Len(cursors) :
          ~is_atomic(cursors[i]) =>
            /\ Calls("move_cursors", "Left") =>
                  last'.result = "ok" /\ cursors'[i] = StartOf(cursors[i])
            /\ Calls("move_cursors", "Right") =>
                  last'.result = "ok" /\ cursors'[i] = EndOf(cursors[i]) ]_vars

\* C18 happens: Right left the one cursor of the buffer at (0, 0, 0), where
\* no step to the right ends: a selection that ended there has collapsed
C18_Witness ==
    /\ last.op = "move_cursors" /\ last.arg = "Right" /\ last.result = "ok"
    /\ lines = << <<"E", "a", "E", "\n">>, <<"a", "a", "\n">> >>
    /\ cursors = <<DefaultCursor>>

\* C19: after a move_cursors call and after a write_character call that
\* returned, the end of every cursor is its start: line, byte and column.
C19_CursorsAtomicAfterCalls ==
    (last.op \in {"move_cursors", "write_character"} /\ last.result = "ok") =>
        \A i \in 1..Len(cursors) : cursors[i] = StartOf(cursors[i])

\* C19 happens: a character was written over a selection (only that leaves
\* the escaped text in the line) and the cursor is a caret
C19_Witness ==
    /\ last.op = "write_character" /\ last.arg = "E" /\ last.result = "ok"
    /\ lines = << <<"\\", "u", "{", "e", "9", "}", "\n">> >>
    /\ Len(cursors) = 1 /\ cursors[1] = StartOf(cursors[1])

\* C20: with one caret at a byte offset b > 0 of a line, write_character
\* (BACKSPACE) removes the one codepoint of the line that ends at b, puts the
\* caret at that codepoint's first byte and one column lower, and keeps the
\* rest of the line and the other lines; with one caret at (line 0, byte 0)
\* it changes neither the lines, nor the cursor, nor the saved flag.
C20_BackspaceRemovesCodepoint ==
    [][ (/\ Calls("write_character", BACKSPACE)
         /\ Len(cursors) = 1 /\ is_atomic(cursors[1])
         /\ ValidStart(lines, cursors[1])) =>
            LET c == cursors[1]
                L == c.start_line
                l == lines[L + 1]
            IN  /\ c.start_byte > 0 =>
                      /\ last'.result = "ok"
                      /\ \E n \in 1..Len(l) :
                            /\ byte_of(l, n) = c.start_byte
                            /\ lines'[L + 1] = SubSeq(l, 1, n - 1) \o SubSeq(l, n + 1, Len(l))
                            /\ cursors' = <<Caret([line |-> L, byte |-> byte_of(l, n - 1),
                                                   character |-> c.start_character - 1])>>
                      /\ OthersKept({L}, 0)
                /\ (c.start_byte = 0 /\ L = 0) =>
                      /\ last'.result = "ok"
                      /\ lines' = lines /\ cursors' = cursors /\ saved' = saved ]_vars

RECURSIVE InsertedInOrder(_, _, _, _)
\* the bytes of line L after the bytes ins were put in at the byte offset of
\* every cursor on line L, cursor i first, each offset as it is before the
\* call and counted in the line as the cursors before it left it
InsertedInOrder(bytes, L, ins, i) ==
    IF i > Len(cursors) THEN bytes
    ELSE IF cursors[i].start_line # L THEN InsertedInOrder(bytes, L, ins, i + 1)
    ELSE InsertedInOrder(SubSeq(bytes, 1, cursors[i].start_byte) \o ins
                           \o SubSeq(bytes, cursors[i].start_byte + 1, Len(bytes)),
                         L, ins, i + 1)

\* C21: a write_character call with two or more cursors keeps their number
\* and order; when it returns, every caret has moved from its own
\* coordinates of before the call (by the character's length and one column
\* for a character, to column 0 of the next line for a newline), whatever
\* the cursors before it did to the lines, and each line holds the character
\* at the byte offset of each of its cursors, put in in collection order.
C21_CursorsWrittenInOrder ==
    [][ \A ch \in Typed :
          (Calls("write_character", ch) /\ Len(cursors) >= 2) =>
            /\ Len(cursors') = Len(cursors)
            /\ (last'.result = "ok" /\ ch \in {"\t", "E"}
                  /\ \A i \in 1..Len(cursors) : is_atomic(cursors[i])) =>
                 /\ \A i \in 1..Len(cursors) :
                      /\ is_atomic(cursors'[i])
                      /\ cursors'[i].start_line = cursors[i].start_line
                      /\ cursors'[i].start_byte = cursors[i].start_byte + len_utf8(ch)
                      /\ cursors[i].start_character < UsizeMax =>
                           cursors'[i].start_character = cursors[i].start_character + 1
                 /\ Len(lines') = Len(lines)
                 /\ \A L \in 0..(Len(lines) - 1) :
                      Bytes(lines'[L + 1]) =
                        InsertedInOrder(Bytes(lines[L + 1]), L, Bytes(<<ch>>), 1)
            /\ (last'.result = "ok" /\ ch = "\n"
                  /\ \A i \in 1..Len(cursors) : is_atomic(cursors[i])) =>
                 /\ \A i \in 1..Len(cursors) :
                      cursors'[i] = Caret([line |-> cursors[i].start_line + 1,
                                           byte |-> 0, character |-> 0])
                 /\ Len(lines') = Len(lines) + Len(cursors) ]_vars

\* C21 happens: a tab was written at the carets before and after the "a" of
\* "a": the second tab went in at byte 1, the second caret's offset of
\* before the call, and so before the "a"
C21_Witness ==
    /\ last.op = "write_character" /\ last.arg = "\t" /\ last.result = "ok"
    /\ lines = << <<"\t", "\t", "a", "\n">> >>
    /\ cursors = <<Caret([line |-> 0, byte |-> 1, character |-> 1]),
                   Caret([line |-> 0, byte |-> 2, character |-> 2])>>


\* saved tells the truth: if it is true and a path is set, the file at that
\* path is the concatenation of the stored lines
SavedMeansPersisted == (saved /\ path # NoPath) => fs[path] = File(concat(lines))

\* C22: after the load of a file of terminated lines (the file is the
\* concatenation of the lines read) saved tells the truth, and every call on
\* a loaded buffer whose saved tells the truth leaves it telling the truth:
\* whenever saved is true and a path is set, the file at that path holds
\* exactly the stored lines.  remove_path sets saved to false.
C22_SavedMeansPersistedAtPath ==
    [][ /\ (Returns("load", "") /\ fs[path] = File(concat(lines'))) =>
              SavedMeansPersisted'
        /\ (loaded /\ SavedMeansPersisted) => SavedMeansPersisted'
        /\ Calls("remove_path", "") => ~saved' ]_vars

=============================================================================
